---- MODULE Spec2Model ----
(***************************************************************************)
(* A model of launcher/resources/git-shim.py: the shim that stands in for  *)
(* git on a devbox.  One invocation classifies the working directory       *)
(* against ~/.devbox/managed_dirs, then either execs the real git, answers *)
(* "rev-parse --show-toplevel" locally, or forwards the command to the     *)
(* proxy on 127.0.0.1:PORT and replays the proxy's response frames.        *)
(*                                                                         *)
(* Text is modelled as sequences of one-character strings, so that prefix  *)
(* comparison and whitespace trimming are computed character by character. *)
(* A response line is a sequence of JSON tokens, which json_loads parses.  *)
(* The script is Python 2 (print_function import, str + bytes on line 52): *)
(* the model follows Python 2's semantics of ==, len, print and sys.exit.  *)
(***************************************************************************)
EXTENDS Integers, Sequences, FiniteSets, TLC

VARIABLES
    cwd,          \* os.getcwd()
    home,         \* os.path.expanduser("~")
    dirfile,      \* ~/.devbox/managed_dirs: [exists, lines]
    args,         \* sys.argv[1:]
    pc,           \* the script's position
    root_managed, \* line 35
    stdout,       \* the lines printed, in order
    stderr,       \* what sys.exit wrote for a non-integer argument
    outcome,      \* how the process ended: [kind, code, exc]
    execArgv,     \* the argument vector handed to os.execv, <<>> before
    intrinsic,    \* handle_intrinsic resolved the command
    sockets,      \* sockets created
    connects,     \* connect attempts made
    conn,         \* the socket: "none", "connected" or "failed"
    sent,         \* the request lines written to the socket
    received,     \* the response lines the peer has delivered so far
    peerClosed,   \* the peer has closed the response stream
    lines,        \* the list socket_file.readlines() returned
    idx           \* the for loop's position in lines (1-based)

vars == <<cwd, home, dirfile, args, pc, root_managed, stdout, stderr, outcome,
          execArgv, intrinsic, sockets, connects, conn, sent, received, peerClosed,
          lines, idx>>

(***************************************************************************)
(* Program constants.                                                      *)
(***************************************************************************)
PORT == 20280

REAL_GIT == <<"/", "u", "s", "r", "/", "b", "i", "n", "/", "g", "i", "t">>

\* The text line 48 prints, held as one unit of text.
ConnectDiagnostic == <<"Unable to connect to git proxy; is your devbox syncer running?">>

(***************************************************************************)
(* Bounds.                                                                 *)
(***************************************************************************)
MaxLines == 3      \* response lines the peer delivers before it closes
MaxPathLen == 3    \* characters of a working directory (SpecFind)
MaxFileLines == 2  \* lines of the managed_dirs file (SpecFind)
MaxDepth == 3      \* components of a working directory (SpecRequest)

(***************************************************************************)
(* Text helpers.                                                           *)
(***************************************************************************)
Whitespace == {" ", "\n", "\t"}

\* Every sequence over S of length at most n.
SeqsUpTo(S, n) == UNION {[1..k -> S] : k \in 0..n}

\* str.strip(): leading and trailing whitespace removed.
RECURSIVE lstrip(_)
lstrip(s) ==
    IF s # <<>> /\ Head(s) \in Whitespace THEN lstrip(Tail(s)) ELSE s

RECURSIVE rstrip(_)
rstrip(s) ==
    IF s # <<>> /\ s[Len(s)] \in Whitespace
    THEN rstrip(SubSeq(s, 1, Len(s) - 1))
    ELSE s

strip(s) == rstrip(lstrip(s))

\* os.path.commonprefix([a, b]): the longest common leading run, item by item
\* (characters of two strings, or components of two lists).
RECURSIVE commonprefix(_, _)
commonprefix(a, b) ==
    IF a # <<>> /\ b # <<>> /\ Head(a) = Head(b)
    THEN <<Head(a)>> \o commonprefix(Tail(a), Tail(b))
    ELSE <<>>

\* f.readlines(): every line ends with its newline.
readlines(file) == [i \in DOMAIN file |-> file[i] \o <<"\n">>]

(***************************************************************************)
(* find_managed_dir: the first line of the file that, trimmed, is a        *)
(* textual prefix of path; "" when there is none or the file is absent.    *)
(***************************************************************************)
\* Line 21 with the comparison against the path, not the line.
LineMatchesPath(path, dirname) == commonprefix(path, dirname) = path

\* Line 21: os.path.commonprefix([path, dirname]) == dirname
LineMatches(path, dirname) == commonprefix(path, dirname) = dirname

\* Lines 19-22 with a loop that keeps the last matching line, not the first.
RECURSIVE find_in_lines_last(_, _, _)
find_in_lines_last(path, flines, i) ==
    IF i > Len(flines) THEN <<>>
    ELSE LET dirname == strip(flines[i])
             later   == find_in_lines_last(path, flines, i + 1)
         IN  IF later # <<>> THEN later
             ELSE IF LineMatches(path, dirname) THEN dirname
             ELSE <<>>

\* Lines 19-22: the loop over the lines of the file, from line i on.
RECURSIVE find_in_lines(_, _, _)
find_in_lines(path, flines, i) ==
    IF i > Len(flines) THEN <<>>
    ELSE LET dirname == strip(flines[i])
         IN  IF LineMatches(path, dirname) THEN dirname
             ELSE find_in_lines(path, flines, i + 1)

find_managed_dir(path, file) ==
    IF file.exists THEN find_in_lines(path, readlines(file.lines), 1) ELSE <<>>

(***************************************************************************)
(* os.path.relpath(path, start), for absolute normalised paths.            *)
(***************************************************************************)
\* s.split("/") without the empty components.
RECURSIVE split_path(_, _)
split_path(s, cur) ==
    IF s = <<>> THEN (IF cur = <<>> THEN <<>> ELSE <<cur>>)
    ELSE IF Head(s) = "/"
         THEN (IF cur = <<>> THEN <<>> ELSE <<cur>>) \o split_path(Tail(s), <<>>)
         ELSE split_path(Tail(s), Append(cur, Head(s)))

\* "/".join(parts)
RECURSIVE join_path(_)
join_path(parts) ==
    IF parts = <<>> THEN <<>>
    ELSE IF Len(parts) = 1 THEN parts[1]
    ELSE parts[1] \o <<"/">> \o join_path(Tail(parts))

\* relpath that drops the common leading components and never climbs with
\* "..": right only for a path under start.
relpath_without_climbing(path, start) ==
    LET start_list == split_path(start, <<>>)
        path_list  == split_path(path, <<>>)
        i          == Len(commonprefix(start_list, path_list))
        rel_list   == SubSeq(path_list, i + 1, Len(path_list))
    IN  IF rel_list = <<>> THEN <<".">> ELSE join_path(rel_list)

relpath(path, start) ==
    LET start_list == split_path(start, <<>>)
        path_list  == split_path(path, <<>>)
        i          == Len(commonprefix(start_list, path_list))
        rel_list   == [k \in 1..(Len(start_list) - i) |-> <<".", ".">>]
                      \o SubSeq(path_list, i + 1, Len(path_list))
    IN  IF rel_list = <<>> THEN <<".">> ELSE join_path(rel_list)

(***************************************************************************)
(* JSON.  A token and a scalar value share one record shape [t, n, s]:     *)
(* t the kind, n the number (of an int; 1/0 of a bool), s the text.        *)
(***************************************************************************)
P(c)     == [t |-> "punct", n |-> 0, s |-> <<c>>]
JInt(k)  == [t |-> "int",   n |-> k, s |-> <<>>]
JStr(cs) == [t |-> "str",   n |-> 0, s |-> cs]
JTrue    == [t |-> "bool",  n |-> 1, s |-> <<>>]
JFalse   == [t |-> "bool",  n |-> 0, s |-> <<>>]
JNull    == [t |-> "null",  n |-> 0, s |-> <<>>]

\* What the element parsers return for tokens that are not JSON.
BadTok   == [t |-> "error", n |-> 0, s |-> <<>>]

IsScalarTok(tok) == tok.t \in {"int", "str", "bool", "null"}

\* What json.loads returns: a list, a dict, a scalar, or ValueError.
ParseError     == [kind |-> "error",  items |-> <<>>, keys |-> <<>>]
ParsedList(vs) == [kind |-> "list",   items |-> vs,   keys |-> <<>>]
ParsedDict(ks, vs) == [kind |-> "dict", items |-> vs, keys |-> ks]
ParsedScalar(v) == [kind |-> "scalar", items |-> <<v>>, keys |-> <<>>]

\* The elements of "v , v , ... , v", or <<BadTok>> when the tokens are
\* not of that form. (Frames carry scalars; nested containers are not drawn.)
RECURSIVE parse_elements(_)
parse_elements(toks) ==
    IF toks = <<>> \/ ~IsScalarTok(Head(toks)) THEN <<BadTok>>
    ELSE IF Len(toks) = 1 THEN <<Head(toks)>>
    ELSE IF toks[2] # P(",") THEN <<BadTok>>
    ELSE LET rest == parse_elements(SubSeq(toks, 3, Len(toks)))
         IN  IF rest = <<BadTok>> THEN rest ELSE <<Head(toks)>> \o rest

\* The pairs of "k : v , k : v", as <<k, v, k, v, ...>>, or <<BadTok>>.
RECURSIVE parse_members(_)
parse_members(toks) ==
    IF Len(toks) < 3 \/ toks[1].t # "str" \/ toks[2] # P(":")
       \/ ~IsScalarTok(toks[3])
    THEN <<BadTok>>
    ELSE IF Len(toks) = 3 THEN <<toks[1], toks[3]>>
    ELSE IF toks[4] # P(",") THEN <<BadTok>>
    ELSE LET rest == parse_members(SubSeq(toks, 5, Len(toks)))
         IN  IF rest = <<BadTok>> THEN rest
             ELSE <<toks[1], toks[3]>> \o rest

json_loads(toks) ==
    IF toks = <<>> THEN ParseError
    ELSE IF Len(toks) = 1
         THEN (IF IsScalarTok(toks[1]) THEN ParsedScalar(toks[1]) ELSE ParseError)
    ELSE LET inner == SubSeq(toks, 2, Len(toks) - 1)
         IN  IF toks[1] = P("[") /\ toks[Len(toks)] = P("]")
             THEN IF inner = <<>> THEN ParsedList(<<>>)
                  ELSE LET es == parse_elements(inner)
                       IN  IF es = <<BadTok>> THEN ParseError
                           ELSE ParsedList(es)
             ELSE IF toks[1] = P("{") /\ toks[Len(toks)] = P("}")
             THEN IF inner = <<>> THEN ParsedDict(<<>>, <<>>)
                  ELSE LET ms == parse_members(inner)
                       IN  IF ms = <<BadTok>> THEN ParseError
                           ELSE ParsedDict(
                                  [k \in 1..(Len(ms) \div 2) |-> ms[2 * k - 1]],
                                  [k \in 1..(Len(ms) \div 2) |-> ms[2 * k]])
             ELSE ParseError

\* json.dumps of the request dict. Python 2 iterates {"workingDir", "cmd"} in
\* hash order, which puts "cmd" first.
json_dumps_list(strs) ==
    <<P("[")>>
    \o [k \in 1..(2 * Len(strs) - 1) |->
          IF k % 2 = 1 THEN JStr(strs[(k + 1) \div 2]) ELSE P(",")]
    \o <<P("]")>>

json_dumps(request) ==
    <<P("{"), JStr(<<"c", "m", "d">>), P(":")>>
    \o json_dumps_list(request.cmd)
    \o <<P(","), JStr(<<"w", "o", "r", "k", "i", "n", "g", "D", "i", "r">>),
         P(":"), JStr(request.workingDir), P("}")>>

(***************************************************************************)
(* Python's operations on a parsed response.                               *)
(***************************************************************************)
\* len(response) raises TypeError for a number, a boolean or None.
HasLen(r) == r.kind \in {"list", "dict"} \/ (r.kind = "scalar" /\ r.items[1].t = "str")

py_len(r) == IF r.kind = "scalar" THEN Len(r.items[1].s) ELSE Len(r.items)

\* response[i] of a list or a string (a dict has string keys: KeyError).
py_getitem(r, i) ==
    IF r.kind = "scalar" THEN JStr(<<r.items[1].s[i + 1]>>) ELSE r.items[i + 1]

\* v == k for an integer literal k: True == 1 and False == 0 in Python.
py_eq_int(v, k) == v.t \in {"int", "bool"} /\ v.n = k

Digits == <<"0", "1", "2", "3", "4", "5", "6", "7", "8", "9">>

RECURSIVE int_text(_)
int_text(k) ==
    IF k < 10 THEN <<Digits[k + 1]>>
    ELSE int_text(k \div 10) \o <<Digits[(k % 10) + 1]>>

\* The text print(v) writes for a scalar v.
py_str(v) ==
    CASE v.t = "str"  -> v.s
      [] v.t = "int"  -> int_text(v.n)
      [] v.t = "bool" -> IF v.n = 1 THEN <<"T", "r", "u", "e">>
                         ELSE <<"F", "a", "l", "s", "e">>
      [] OTHER        -> <<"N", "o", "n", "e">>

\* How the process ends.
Running   == [kind |-> "running", code |-> 0, exc |-> ""]
Execed    == [kind |-> "exec",    code |-> 0, exc |-> ""]
Exited(c) == [kind |-> "exit",    code |-> c, exc |-> ""]
\* An uncaught exception: a traceback, and the interpreter's status 1.
Fatal(e)  == [kind |-> "fatal",   code |-> 1, exc |-> e]

\* sys.exit(v): an integer (a bool is one) is the status, None is 0, and
\* anything else is written to stderr with status 1.
sys_exit(v) ==
    CASE v.t \in {"int", "bool"} -> [out |-> Exited(v.n % 256), err |-> <<>>]
      [] v.t = "null"            -> [out |-> Exited(0), err |-> <<>>]
      [] OTHER                   -> [out |-> Exited(1), err |-> <<py_str(v)>>]

(***************************************************************************)
(* The body of the receive loop (lines 57-69) as the effect of one line.   *)
(***************************************************************************)
Raise(e)    == [act |-> "raise", val |-> JNull, exc |-> e]
DoPrint(v)  == [act |-> "print", val |-> v,     exc |-> ""]
DoExit(v)   == [act |-> "exit",  val |-> v,     exc |-> ""]

\* Lines 57-69 with line 63 printing the tag, response[0], for the payload.
loop_body_prints_tag(line) ==
    LET response == json_loads(line)
    IN  IF response.kind = "error" THEN Raise("ValueError")
        ELSE IF ~HasLen(response) THEN Raise("TypeError")
        ELSE IF py_len(response) = 2
        THEN IF response.kind = "dict" THEN Raise("KeyError")
             ELSE IF py_eq_int(py_getitem(response, 0), 0)
                  THEN DoPrint(py_getitem(response, 0))
             ELSE IF py_eq_int(py_getitem(response, 0), 1)
                  THEN DoExit(py_getitem(response, 1))
             ELSE Raise("NameError")
        ELSE Raise("NameError")

loop_body(line) ==
    LET response == json_loads(line)
    IN  IF response.kind = "error" THEN Raise("ValueError")
        ELSE IF ~HasLen(response) THEN Raise("TypeError")
        ELSE IF py_len(response) = 2
        THEN IF response.kind = "dict" THEN Raise("KeyError")
             ELSE IF py_eq_int(py_getitem(response, 0), 0)
                  THEN DoPrint(py_getitem(response, 1))
             ELSE IF py_eq_int(py_getitem(response, 0), 1)
                  THEN DoExit(py_getitem(response, 1))
             \* lines 67 and 69 name 'reply', which is not defined
             ELSE Raise("NameError")
        ELSE Raise("NameError")

\* Where the script is after a line's effect, were sys.exit to return.
pc_after_ignoring_exit(eff) == IF eff.act = "raise" THEN "done" ELSE "loop"

\* Where the script is after a line's effect: print continues the loop,
\* sys.exit and an exception leave it.
pc_after(eff) == IF eff.act = "print" THEN "loop" ELSE "done"

(***************************************************************************)
(* handle_intrinsic's test, line 31.                                       *)
(***************************************************************************)
RevParseTopLevel ==
    << <<"r", "e", "v", "-", "p", "a", "r", "s", "e">>,
       <<"-", "-", "s", "h", "o", "w", "-", "t", "o", "p", "l", "e", "v", "e", "l">> >>

\* Line 31 with a test of the leading arguments only.
is_intrinsic_prefix(argv1) ==
    Len(argv1) >= 2 /\ SubSeq(argv1, 1, 2) = RevParseTopLevel

\* Line 31 with a test that the two words are the arguments, in any order.
is_intrinsic_unordered(argv1) ==
    /\ Len(argv1) = 2
    /\ {argv1[1], argv1[2]} = {RevParseTopLevel[1], RevParseTopLevel[2]}

\* len(sys.argv) > 1 and sys.argv[1:] == ["rev-parse", "--show-toplevel"]
is_intrinsic(argv1) == Len(argv1) > 0 /\ argv1 = RevParseTopLevel

(***************************************************************************)
(* The inputs of an invocation.                                            *)
(***************************************************************************)
HomeDir == <<"/", "h">>

NoFile == [exists |-> FALSE, lines |-> <<>>]
File(ls) == [exists |-> TRUE, lines |-> ls]

\* Working directories and managed_dirs files of the protocol runs: under a
\* managed root, outside one, and under a root listed after a blank line.
WorkDirs == { <<"/", "h", "/", "p", "/", "s">>, <<"/", "t">> }

DirFiles ==
    { NoFile,
      File(<< <<"/", "h", "/", "p">> >>),
      File(<< <<" ">>, <<"/", "h", "/", "p">> >>) }

ArgVectors ==
    { <<>>,
      RevParseTopLevel,
      << <<"s", "t", "a", "t", "u", "s">> >>,
      << RevParseTopLevel[1] >>,
      << RevParseTopLevel[2], RevParseTopLevel[1] >>,
      RevParseTopLevel \o << <<"x">> >>,
      << <<"x">> >> \o RevParseTopLevel }

\* The lines a peer may deliver: well-formed frames, frames of the wrong
\* length, tag or payload type, values that are no frame, and text that is
\* no JSON.
ResponseLines ==
    { <<P("["), JInt(0), P(","), JStr(<<"x">>), P("]")>>,
      <<P("["), JInt(0), P(","), JStr(<<"y">>), P("]")>>,
      <<P("["), JInt(1), P(","), JInt(0), P("]")>>,
      <<P("["), JInt(1), P(","), JInt(3), P("]")>>,
      <<P("["), JInt(2), P(","), JStr(<<"x">>), P("]")>>,
      <<P("["), JInt(1), P(","), JInt(3), P(","), JInt(0), P("]")>>,
      <<P("["), JFalse, P(","), JStr(<<"x">>), P("]")>>,
      <<P("["), JInt(0), P(","), JInt(3), P("]")>>,
      <<P("["), JInt(1), P(","), JStr(<<"x">>), P("]")>>,
      <<P("["), JInt(1), P(","), JNull, P("]")>>,
      <<P("["), JInt(0), P(",")>> }

\* The inputs of find_managed_dir on its own.
PathChars == {"/", "a", "b"}

FileLines ==
    { <<>>, <<" ">>, <<"/">>, <<"/", "a">>, <<"/", "a", " ">>,
      <<" ", "/", "a">>, <<"/", "a", "/">>, <<"/", "b">> }

(***************************************************************************)
(* The state after the interpreter has started the script.                 *)
(***************************************************************************)
InitLocals ==
    /\ pc = "start"
    /\ root_managed = <<>>
    /\ stdout = <<>>
    /\ stderr = <<>>
    /\ outcome = Running
    /\ execArgv = <<>>
    /\ intrinsic = FALSE
    /\ sockets = 0
    /\ connects = 0
    /\ conn = "none"
    /\ sent = <<>>
    /\ received = <<>>
    /\ peerClosed = FALSE
    /\ lines = <<>>
    /\ idx = 0

InitRest == home = HomeDir /\ InitLocals

Init ==
    /\ cwd \in WorkDirs
    /\ dirfile \in DirFiles
    /\ args \in ArgVectors
    /\ InitRest

InitFind ==
    /\ cwd \in SeqsUpTo(PathChars, MaxPathLen)
    /\ dirfile \in {NoFile} \cup {File(ls) : ls \in SeqsUpTo(FileLines, MaxFileLines)}
    /\ args = RevParseTopLevel
    /\ InitRest

(***************************************************************************)
(* The script, top to bottom.                                              *)
(***************************************************************************)
\* Line 35: root_managed = find_managed_dir(os.getcwd())
FindManagedDir ==
    /\ pc = "start"
    /\ root_managed' = find_managed_dir(cwd, dirfile)
    /\ pc' = "branch"
    /\ UNCHANGED <<cwd, home, dirfile, args, stdout, stderr, outcome, execArgv,
                   intrinsic, sockets, connects, conn, sent, received, peerClosed,
                   lines, idx>>

\* Lines 37-38 with an argument vector that holds the binary's name alone.
PassthroughDropsArguments ==
    /\ pc = "branch"
    /\ root_managed = <<>>
    /\ execArgv' = <<REAL_GIT>>
    /\ \E ok \in BOOLEAN : outcome' = IF ok THEN Execed ELSE Fatal("OSError")
    /\ pc' = "done"
    /\ UNCHANGED <<cwd, home, dirfile, args, root_managed, stdout, stderr,
                   intrinsic, sockets, connects, conn, sent, received,
                   peerClosed, lines, idx>>

\* Lines 37-38: os.execv replaces the process, or raises OSError.
Passthrough ==
    /\ pc = "branch"
    /\ root_managed = <<>>
    /\ execArgv' = <<REAL_GIT>> \o args
    /\ \E ok \in BOOLEAN : outcome' = IF ok THEN Execed ELSE Fatal("OSError")
    /\ pc' = "done"
    /\ UNCHANGED <<cwd, home, dirfile, args, root_managed, stdout, stderr,
                   intrinsic, sockets, connects, conn, sent, received, peerClosed,
                   lines, idx>>

\* Lines 41, 31-33 with line 32 printing the working directory for the root.
HandleIntrinsicExitPrintsCwd ==
    /\ pc = "branch"
    /\ root_managed # <<>>
    /\ is_intrinsic(args)
    /\ stdout' = Append(stdout, cwd)
    /\ intrinsic' = TRUE
    /\ outcome' = Exited(0)
    /\ pc' = "done"
    /\ UNCHANGED <<cwd, home, dirfile, args, root_managed, stderr, execArgv,
                   sockets, connects, conn, sent, received, peerClosed, lines,
                   idx>>

\* Lines 41, 31-33: the intrinsic command is answered and the process exits.
HandleIntrinsicExit ==
    /\ pc = "branch"
    /\ root_managed # <<>>
    /\ is_intrinsic(args)
    /\ stdout' = Append(stdout, root_managed)
    /\ intrinsic' = TRUE
    /\ outcome' = Exited(0)
    /\ pc' = "done"
    /\ UNCHANGED <<cwd, home, dirfile, args, root_managed, stderr, execArgv,
                   sockets, connects, conn, sent, received, peerClosed, lines, idx>>

\* Lines 41, 31: any other command; handle_intrinsic returns.
HandleIntrinsicReturn ==
    /\ pc = "branch"
    /\ root_managed # <<>>
    /\ ~is_intrinsic(args)
    /\ pc' = "connect"
    /\ UNCHANGED <<cwd, home, dirfile, args, root_managed, stdout, stderr,
                   outcome, execArgv, intrinsic, sockets, connects, conn, sent,
                   received, peerClosed, lines, idx>>

\* Lines 44-46: the socket is created and the connect succeeds.
ConnectOk ==
    /\ pc = "connect"
    /\ sockets' = sockets + 1
    /\ connects' = connects + 1
    /\ conn' = "connected"
    /\ pc' = "send"
    /\ UNCHANGED <<cwd, home, dirfile, args, root_managed, stdout, stderr,
                   outcome, execArgv, intrinsic, sent, received, peerClosed,
                   lines, idx>>

\* Lines 44-49 with a handler that tries the connect again.
ConnectFailsAndRetries ==
    /\ pc = "connect"
    /\ connects < 2
    /\ sockets' = sockets + 1
    /\ connects' = connects + 1
    /\ conn' = "failed"
    /\ stdout' = Append(stdout, ConnectDiagnostic)
    /\ UNCHANGED <<cwd, home, dirfile, args, root_managed, stderr, outcome, pc,
                   execArgv, intrinsic, sent, received, peerClosed, lines, idx>>

\* Lines 44-49: the connect raises socket.error; one line is printed and the
\* process exits with 1.
ConnectFails ==
    /\ pc = "connect"
    /\ sockets' = sockets + 1
    /\ connects' = connects + 1
    /\ conn' = "failed"
    /\ stdout' = Append(stdout, ConnectDiagnostic)
    /\ outcome' = Exited(1)
    /\ pc' = "done"
    /\ UNCHANGED <<cwd, home, dirfile, args, root_managed, stderr, execArgv,
                   intrinsic, sent, received, peerClosed, lines, idx>>

\* Lines 50-52: the request, one JSON line.
Send ==
    /\ pc = "send"
    /\ LET relative_dir == relpath(cwd, home)
           cmd == json_dumps([workingDir |-> relative_dir,
                              cmd |-> << <<"g", "i", "t">> >> \o args])
       IN  sent' = Append(sent, cmd \o <<P("\n")>>)
    /\ pc' = "readlines"
    /\ UNCHANGED <<cwd, home, dirfile, args, root_managed, stdout, stderr,
                   outcome, execArgv, intrinsic, sockets, connects, conn, received,
                   peerClosed, lines, idx>>

\* Lines 54-56: socket_file.readlines() returns at end of file, with every
\* line the peer delivered.
ReadLines ==
    /\ pc = "readlines"
    /\ peerClosed
    /\ lines' = received
    /\ idx' = 1
    /\ pc' = "loop"
    /\ UNCHANGED <<cwd, home, dirfile, args, root_managed, stdout, stderr,
                   outcome, execArgv, intrinsic, sockets, connects, conn, sent,
                   received, peerClosed>>

\* Lines 56-69: one iteration of the loop.
LoopStep ==
    /\ pc = "loop"
    /\ idx <= Len(lines)
    /\ LET eff == loop_body(lines[idx])
       IN  /\ stdout' = IF eff.act = "print"
                        THEN Append(stdout, py_str(eff.val)) ELSE stdout
           /\ stderr' = IF eff.act = "exit"
                        THEN stderr \o sys_exit(eff.val).err ELSE stderr
           /\ outcome' = CASE eff.act = "exit"  -> sys_exit(eff.val).out
                           [] eff.act = "raise" -> Fatal(eff.exc)
                           [] OTHER             -> outcome
           /\ pc' = pc_after(eff)
           /\ idx' = IF pc_after(eff) = "loop" THEN idx + 1 ELSE idx
    /\ UNCHANGED <<cwd, home, dirfile, args, root_managed, execArgv, intrinsic,
                   sockets, connects, conn, sent, received, peerClosed, lines>>

\* Line 56 with the list exhausted: the script ends, with status 0.
LoopEnd ==
    /\ pc = "loop"
    /\ idx > Len(lines)
    /\ outcome' = Exited(0)
    /\ pc' = "done"
    /\ UNCHANGED <<cwd, home, dirfile, args, root_managed, stdout, stderr,
                   execArgv, intrinsic, sockets, connects, conn, sent, received,
                   peerClosed, lines, idx>>

(***************************************************************************)
(* The proxy server, which answers a request it has been sent.             *)
(***************************************************************************)
PeerSend ==
    /\ sent # <<>>
    /\ ~peerClosed
    /\ Len(received) < MaxLines
    /\ \E l \in ResponseLines : received' = Append(received, l)
    /\ UNCHANGED <<cwd, home, dirfile, args, pc, root_managed, stdout, stderr,
                   outcome, execArgv, intrinsic, sockets, connects, conn, sent,
                   peerClosed, lines, idx>>

PeerClose ==
    /\ sent # <<>>
    /\ ~peerClosed
    /\ peerClosed' = TRUE
    /\ UNCHANGED <<cwd, home, dirfile, args, pc, root_managed, stdout, stderr,
                   outcome, execArgv, intrinsic, sockets, connects, conn, sent,
                   received, lines, idx>>

ShimStep ==
    \/ FindManagedDir
    \/ Passthrough
    \/ HandleIntrinsicExit
    \/ HandleIntrinsicReturn
    \/ ConnectOk
    \/ ConnectFails
    \/ Send
    \/ ReadLines
    \/ LoopStep
    \/ LoopEnd

Next == ShimStep \/ PeerSend \/ PeerClose

Spec == Init /\ [][Next]_vars

\* find_managed_dir over every path and file within the bounds, and the
\* intrinsic that prints what it returned.
NextFind == FindManagedDir \/ HandleIntrinsicExit

SpecFind == InitFind /\ [][NextFind]_vars

\* The request on its own: every working directory of up to MaxDepth
\* components, all of them under the managed root "/", up to the send.
DirNames == { <<"h">>, <<"p">>, <<"s">> }

AbsPath(parts) == <<"/">> \o join_path(parts)

HomeDirs == { HomeDir, <<"/", "h", "/", "p">> }

InitRequest ==
    /\ cwd \in {AbsPath(parts) : parts \in SeqsUpTo(DirNames, MaxDepth)}
    /\ dirfile = File(<< <<"/">> >>)
    /\ args \in ArgVectors
    /\ home \in HomeDirs
    /\ InitLocals

NextRequest ==
    \/ FindManagedDir
    \/ HandleIntrinsicExit
    \/ HandleIntrinsicReturn
    \/ ConnectOk
    \/ ConnectFails
    \/ Send

SpecRequest == InitRequest /\ [][NextRequest]_vars

(***************************************************************************)
(* The vocabulary of the properties: frames as the wire protocol defines   *)
(* them, read off the tokens of a line.                                    *)
(***************************************************************************)
IsPair(l) ==
    /\ Len(l) = 5
    /\ l[1] = P("[") /\ l[3] = P(",") /\ l[5] = P("]")
    /\ IsScalarTok(l[2]) /\ IsScalarTok(l[4])

\* [0, "<text>"]
IsTextFrame(l) == IsPair(l) /\ l[2] = JInt(0) /\ l[4].t = "str"

\* [1, <exit code>]
IsExitFrame(l) == IsPair(l) /\ l[2] = JInt(1) /\ l[4].t = "int"

\* The payloads of the first n lines of ls, each a text frame.
Payloads(ls, n) == [i \in 1..n |-> ls[i][4].s]

AllTextFrames(ls, n) == \A i \in 1..n : IsTextFrame(ls[i])

\* The receive loop has run to its end, over the lines in 'lines'.
ProxyDone == pc = "done" /\ conn = "connected" /\ idx >= 1

IsPrefix(p, s) == Len(p) <= Len(s) /\ SubSeq(s, 1, Len(p)) = p

(***************************************************************************)
(* C1: when the peer closes the stream after zero or more tag-0 frames and *)
(* no tag-1 frame, the shim ends in a fatal error, never a normal exit.    *)
(* The code falls off the end of the loop and the script ends with 0.      *)
(***************************************************************************)
C1_CloseBeforeExitFrameIsFatal ==
    (ProxyDone /\ AllTextFrames(lines, Len(lines))) => outcome.kind = "fatal"

(***************************************************************************)
(* C2: for a stream of n >= 0 tag-0 frames, one tag-1 frame [1, c] and     *)
(* then a close, the shim prints exactly the n payloads, in the order      *)
(* received, and exits with code c.                                        *)
(***************************************************************************)
C2_WellFormedStream ==
    (/\ ProxyDone
     /\ Len(lines) >= 1
     /\ AllTextFrames(lines, Len(lines) - 1)
     /\ IsExitFrame(lines[Len(lines)]))
    => /\ stdout = Payloads(lines, Len(lines) - 1)
       /\ outcome = Exited(lines[Len(lines)][4].n)
       /\ stderr = <<>>

C2_Witness ==
    /\ ProxyDone
    /\ lines = << <<P("["), JInt(0), P(","), JStr(<<"x">>), P("]")>>,
                  <<P("["), JInt(0), P(","), JStr(<<"y">>), P("]")>>,
                  <<P("["), JInt(1), P(","), JInt(3), P("]")>> >>
    /\ stdout = << <<"x">>, <<"y">> >>
    /\ outcome = Exited(3)

(***************************************************************************)
(* C3: find_managed_dir returns the empty string if and only if no         *)
(* trimmed entry of the list is a textual prefix of the working directory, *)
(* blank lines included. A blank line trims to "", a prefix of every path, *)
(* and the code returns it: the empty string.                              *)
(***************************************************************************)
C3_EmptyIffNoPrefix ==
    pc = "branch" =>
        ((root_managed = <<>>) <=>
            (~ \E i \in 1..Len(dirfile.lines) :
                  IsPrefix(strip(dirfile.lines[i]), cwd)))

C5_ExitFrameUnblocksShim ==
    (/\ conn = "connected"
     /\ pc # "done"
     /\ \E k \in 1..Len(received) : IsExitFrame(received[k]))
    => ENABLED ShimStep

(***************************************************************************)
(* C6: when further lines follow the first tag-1 frame [1, c], the output  *)
(* is exactly the tag-0 payloads before it and the exit code is c; the     *)
(* trailing lines print nothing and raise nothing.                         *)
(***************************************************************************)
C6_NothingAfterExitFrame ==
    \A k \in 1..(Len(lines) - 1) :
        (ProxyDone /\ AllTextFrames(lines, k - 1) /\ IsExitFrame(lines[k]))
        => /\ stdout = Payloads(lines, k - 1)
           /\ outcome = Exited(lines[k][4].n)
           /\ stderr = <<>>
           /\ idx = k

C6_Witness ==
    /\ ProxyDone
    /\ lines = << <<P("["), JInt(0), P(","), JStr(<<"x">>), P("]")>>,
                  <<P("["), JInt(1), P(","), JInt(3), P("]")>>,
                  <<P("["), JInt(0), P(","), JStr(<<"y">>), P("]")>> >>
    /\ stdout = << <<"x">> >>
    /\ outcome = Exited(3)

(***************************************************************************)
(* C7: with a non-empty root r and the arguments exactly rev-parse         *)
(* --show-toplevel, the shim prints r and nothing else and exits with 0,   *)
(* with no socket, no connect, no request and no exec.                     *)
(***************************************************************************)
C7_IntrinsicResolvedLocally ==
    (/\ pc \notin {"start", "branch"}
     /\ root_managed # <<>>
     /\ args = RevParseTopLevel)
    => /\ pc = "done"
       /\ stdout = <<root_managed>>
       /\ outcome = Exited(0)
       /\ sockets = 0 /\ connects = 0 /\ conn = "none"
       /\ sent = <<>>
       /\ execArgv = <<>>

C7_Witness ==
    /\ pc = "done"
    /\ args = RevParseTopLevel
    /\ root_managed = <<"/", "h", "/", "p">>
    /\ stdout = << <<"/", "h", "/", "p">> >>
    /\ outcome = Exited(0)

(***************************************************************************)
(* C8: when the connect fails the shim prints one diagnostic line, exits   *)
(* with 1, has made one connect attempt, sends no request and reads no     *)
(* response.                                                               *)
(***************************************************************************)
C8_ConnectFailure ==
    conn = "failed"
    => /\ pc = "done"
       /\ stdout = <<ConnectDiagnostic>>
       /\ outcome = Exited(1)
       /\ connects = 1 /\ sockets = 1
       /\ sent = <<>>
       /\ lines = <<>> /\ idx = 0

C8_Witness == conn = "failed" /\ pc = "done" /\ outcome = Exited(1)

(***************************************************************************)
(* C9: a record whose length is not two, or a two-element record whose tag *)
(* is neither 0 nor 1, ends the shim in a fatal error with the tag-0       *)
(* payloads before it printed and nothing after it. The code compares the  *)
(* tag with ==, under which false is 0 and true is 1.                      *)
(***************************************************************************)
IsOffendingRecord(l) ==
    LET r == json_loads(l)
    IN  /\ r.kind = "list"
        /\ \/ Len(r.items) # 2
           \/ r.items[1] \notin {JInt(0), JInt(1)}

C9_OffendingRecordIsFatal ==
    \A k \in 1..Len(lines) :
        (ProxyDone /\ AllTextFrames(lines, k - 1) /\ IsOffendingRecord(lines[k]))
        => /\ outcome.kind = "fatal"
           /\ stdout = Payloads(lines, k - 1)

(***************************************************************************)
(* C10: a two-element frame whose payload does not fit its tag (tag 0 with *)
(* a payload that is no string, tag 1 with one that is no integer) ends    *)
(* the shim in a fatal error: the payload is not printed and no exit code  *)
(* is derived from it. The code never looks at the payload's type.         *)
(***************************************************************************)
IsMismatchedFrame(l) ==
    /\ IsPair(l)
    /\ \/ l[2] = JInt(0) /\ l[4].t # "str"
       \/ l[2] = JInt(1) /\ l[4].t # "int"

C10_MismatchedPayloadIsFatal ==
    \A k \in 1..Len(lines) :
        (ProxyDone /\ AllTextFrames(lines, k - 1) /\ IsMismatchedFrame(lines[k]))
        => /\ outcome.kind = "fatal"
           /\ stdout = Payloads(lines, k - 1)

(***************************************************************************)
(* The request as the server decodes it: the value of the "cmd" member, a  *)
(* list of strings, and of the "workingDir" member, a string, whatever the *)
(* order of the members.                                                   *)
(***************************************************************************)
KeyCmd == JStr(<<"c", "m", "d">>)
KeyWorkingDir == JStr(<<"w", "o", "r", "k", "i", "n", "g", "D", "i", "r">>)

\* Where member key's value starts in toks, 0 when there is no such member.
ValueIndex(toks, key) ==
    LET at == {i \in 1..(Len(toks) - 2) : toks[i] = key /\ toks[i + 1] = P(":")}
    IN  IF at = {} THEN 0 ELSE (CHOOSE i \in at : \A j \in at : i <= j) + 2

DecodedCmd(toks) ==
    LET v == ValueIndex(toks, KeyCmd)
        close == CHOOSE j \in v..Len(toks) :
                    /\ toks[j] = P("]")
                    /\ \A m \in v..(j - 1) : toks[m] # P("]")
        es == parse_elements(SubSeq(toks, v + 1, close - 1))
    IN  [k \in 1..Len(es) |-> es[k].s]

DecodedWorkingDir(toks) == toks[ValueIndex(toks, KeyWorkingDir)].s

\* One line of JSON holding an object with both members, and its newline.
IsRequestLine(toks) ==
    /\ Len(toks) >= 3
    /\ toks[1] = P("{")
    /\ toks[Len(toks) - 1] = P("}")
    /\ toks[Len(toks)] = P("\n")
    /\ \A i \in 1..(Len(toks) - 1) : toks[i] # P("\n")
    /\ ValueIndex(toks, KeyCmd) # 0
    /\ toks[ValueIndex(toks, KeyCmd)] = P("[")
    /\ \E j \in ValueIndex(toks, KeyCmd)..Len(toks) : toks[j] = P("]")
    /\ ValueIndex(toks, KeyWorkingDir) # 0
    /\ toks[ValueIndex(toks, KeyWorkingDir)].t = "str"

\* The components of a path with "." dropped and ".." climbing one up.
RECURSIVE Resolve(_, _)
Resolve(done, parts) ==
    IF parts = <<>> THEN done
    ELSE IF Head(parts) = <<".">> THEN Resolve(done, Tail(parts))
    ELSE IF Head(parts) = <<".", ".">>
         THEN Resolve(SubSeq(done, 1, Len(done) - 1), Tail(parts))
    ELSE Resolve(Append(done, Head(parts)), Tail(parts))

\* rel names the directory dir when followed from the directory base.
LeadsTo(base, rel, dir) ==
    Resolve(split_path(base, <<>>), split_path(rel, <<>>)) = split_path(dir, <<>>)

Unmanaged ==
    \/ ~dirfile.exists
    \/ \A i \in 1..Len(dirfile.lines) : ~IsPrefix(strip(dirfile.lines[i]), cwd)

C12_PassthroughUnchanged ==
    (Unmanaged /\ pc \notin {"start", "branch"})
    => /\ pc = "done"
       /\ execArgv = <<REAL_GIT>> \o args
       /\ outcome \in {Execed, Fatal("OSError")}
       /\ stdout = <<>> /\ stderr = <<>>
       /\ sockets = 0 /\ connects = 0 /\ conn = "none" /\ sent = <<>>
       /\ ~intrinsic

C12_Witness ==
    /\ Unmanaged
    /\ pc = "done"
    /\ args = RevParseTopLevel
    /\ execArgv = <<REAL_GIT>> \o RevParseTopLevel
    /\ outcome = Execed

(***************************************************************************)
(* C13: when several entries are prefixes of the working directory,        *)
(* find_managed_dir returns the first of them in file order, not the       *)
(* longest or the last; with no managed_dirs file it returns the empty     *)
(* string, and raises nothing.                                             *)
(***************************************************************************)
Entry(i) == strip(dirfile.lines[i])

Matching == {i \in 1..Len(dirfile.lines) : IsPrefix(Entry(i), cwd)}

C13_FirstMatchInFileOrder ==
    pc = "branch" =>
        /\ outcome = Running
        /\ ~dirfile.exists => root_managed = <<>>
        /\ (dirfile.exists /\ Matching # {}) =>
              root_managed = Entry(CHOOSE i \in Matching : \A j \in Matching : i <= j)

\* Two different entries match, and the one returned comes first and is the
\* shorter of the two.
C13_Witness ==
    /\ pc = "branch"
    /\ \E i, j \in Matching :
          /\ i < j
          /\ Len(Entry(i)) < Len(Entry(j))
          /\ Entry(i) # <<>>
          /\ root_managed = Entry(i)

(***************************************************************************)
(* C14: output is streamed: a tag-0 frame is printed before the next       *)
(* response line is read, without waiting for later frames or for the      *)
(* close. The code reads every line, up to the close, before it prints     *)
(* the first.                                                              *)
(***************************************************************************)
C14_PrintedBeforeNextLineRead ==
    \A k \in 2..Len(lines) :
        AllTextFrames(lines, k - 1) =>
            /\ Len(stdout) >= k - 1
            /\ SubSeq(stdout, 1, k - 1) = Payloads(lines, k - 1)

C16_RootIsAPrefixEntry ==
    /\ root_managed # <<>> =>
          /\ dirfile.exists
          /\ \E i \in 1..Len(dirfile.lines) : root_managed = Entry(i)
          /\ IsPrefix(root_managed, cwd)
    /\ intrinsic =>
          /\ Len(stdout) = 1
          /\ stdout[1] # <<>>
          /\ IsPrefix(stdout[1], cwd)

\* The intrinsic has printed a root that is shorter than the directory and
\* comes from a line with whitespace around it.
C16_Witness ==
    /\ intrinsic
    /\ stdout = <<root_managed>>
    /\ Len(root_managed) < Len(cwd)
    /\ \E i \in 1..Len(dirfile.lines) :
          root_managed = Entry(i) /\ dirfile.lines[i] # Entry(i)

(***************************************************************************)
(* C17: in the proxy branch every termination is a fatal error or a normal *)
(* exit whose code is the payload of the first tag-1 frame consumed; in    *)
(* particular the exit code is 0 only after a terminal frame carrying the  *)
(* integer 0. The code exits with 0 when the stream ends with no terminal  *)
(* frame, and takes a code from a tag-1 payload that is no integer.        *)
(***************************************************************************)
C17_ExitCodeFromTerminalFrame ==
    ProxyDone =>
        \/ outcome.kind = "fatal"
        \/ /\ outcome.kind = "exit"
           /\ idx <= Len(lines)
           /\ IsExitFrame(lines[idx])
           /\ outcome.code = lines[idx][4].n

====
